---------------------------- MODULE Spec2Model ----------------------------
(*************************************************************************)
(* Model of nota/renderScores.py: the second pass of a two-pass LaTeX    *)
(* build.  main() reads <job>.scores.aux, submits one process_request    *)
(* per line to a process pool, and collects the futures as they          *)
(* complete.  process_request parses one directive line, builds the      *)
(* Verovio options, calls render_score and writes the .tex snippet.      *)
(*************************************************************************)
EXTENDS Integers, Naturals, Sequences, FiniteSets, TLC

(* ------------------------------ bounds ------------------------------ *)

\* number of lines of the directive file
MaxLines == 2
\* largest page count the engine reports for a document
MaxPages == 2
\* worker processes of the request pool (os.cpu_count() of the machine)
PoolSize == 2

(* --------------------- directive lines as text ---------------------- *)
(* A line is a sequence of tokens.  A token is the separator "|", a     *)
(* whitespace character, a pipe-free piece of text, or a decimal        *)
(* numeral; n is the numeral's value in tenths (430.0 is n = 4300).     *)
(* A "dots" token matches [0-9.]+ but is no float literal ("1.2.3").    *)

Sep == [k |-> "sep", s |-> "|", n |-> 0]
Nl == [k |-> "ws", s |-> "\n", n |-> 0]
Txt(s) == [k |-> "txt", s |-> s, n |-> 0]
Num(n) == [k |-> "num", s |-> "", n |-> n]
Dots == [k |-> "dots", s |-> "1.2.3", n |-> 0]

\* a length such as 430.0pt
Len10(n) == <<Num(n), Txt("pt")>>

\* source paths: an MEI file and a MuseScore file
MeiPath == <<Txt("scores/a"), Txt(".mei")>>
MsczPath == <<Txt("scores/b"), Txt(".mscz")>>

RECURSIVE Join(_)
\* the fields joined by "|"
Join(fields) ==
    IF Len(fields) = 0 THEN <<>>
    ELSE IF Len(fields) = 1 THEN Head(fields)
    ELSE Head(fields) \o <<Sep>> \o Join(Tail(fields))

\* a directive as LaTeX writes it: id|type|path|font|unit|six lengths
Directive(id, type, path, pw, ph, tm, bm, om, em) ==
    Join(<< <<Txt(id)>>, <<Txt(type)>>, path, <<Txt("Leipzig")>>,
            <<Num(90)>>, pw, ph, tm, bm, om, em >>) \o <<Nl>>

StdDirective(id, type, path) ==
    Directive(id, type, path, Len10(6140), Len10(7940), Len10(720),
              Len10(1000), Len10(620), Len10(700))

(* ----------------------- str.strip / str.split ---------------------- *)

RECURSIVE LStrip(_)
LStrip(s) ==
    IF Len(s) > 0 /\ Head(s).k = "ws" THEN LStrip(Tail(s)) ELSE s

RECURSIVE RStrip(_)
RStrip(s) ==
    IF Len(s) > 0 /\ s[Len(s)].k = "ws"
    THEN RStrip(SubSeq(s, 1, Len(s) - 1)) ELSE s

\* request.strip()
Strip(s) == RStrip(LStrip(s))

RECURSIVE SplitFrom(_, _, _)
\* str.split('|', maxsplit): cur is the field being read
SplitFrom(s, maxsplit, cur) ==
    IF Len(s) = 0 THEN <<cur>>
    ELSE IF Head(s).k = "sep" /\ maxsplit > 0
         THEN <<cur>> \o SplitFrom(Tail(s), maxsplit - 1, <<>>)
         ELSE SplitFrom(Tail(s), maxsplit, Append(cur, Head(s)))

\* request.split('|', 10) and the eleven names it is unpacked into
MaxSplit == 10
FieldCount == 11

Split(s, maxsplit) == SplitFrom(s, maxsplit, <<>>)

(* ----------------------- parse_latex_dimension ---------------------- *)

\* re.match(r"([0-9.]+)", dim_str) finds a prefix
HasNumericPrefix(dim) == Len(dim) > 0 /\ dim[1].k \in {"num", "dots"}

\* float(match.group(1)) succeeds
IsFloat(dim) == HasNumericPrefix(dim) /\ dim[1].k = "num"

\* parse_latex_dimension raises (AttributeError on None, or ValueError)
DimensionRaises(dim) == ~IsFloat(dim)

\* round(pt * 0.3527 * 10) in place of int(...)
parse_latex_dimensionMutant(dim) == (dim[1].n * 3527 + 5000) \div 10000

\* int(pt * 0.3527 * 10), pt = n / 10
parse_latex_dimension(dim) == (dim[1].n * 3527) \div 10000

(* -------------------------- Verovio options ------------------------- *)

\* dict update: the keys of g override those of f
Update(f, g) ==
    [x \in (DOMAIN f) \cup (DOMAIN g) |-> IF x \in DOMAIN g THEN g[x] ELSE f[x]]

\* the six geometry strings of a split request
GeometryFields(parts) == {parts[i] : i \in 6..11}

\* the example page width is taken from the paper width
verovio_optionsMutant(parts) ==
    LET score_type == parts[2]
        paperwidth_px == parse_latex_dimension(parts[6])
        paperheight_px == parse_latex_dimension(parts[7])
        topmargin_px == parse_latex_dimension(parts[8])
        bottommargin_px == parse_latex_dimension(parts[9])
        oddsidemargin_px == parse_latex_dimension(parts[10])
        evensidemargin_px == parse_latex_dimension(parts[11])
        textwidth_px == paperwidth_px - oddsidemargin_px - evensidemargin_px
        textheight_px == paperheight_px - topmargin_px - bottommargin_px
        base == [mmOutput |-> TRUE, footer |-> "none",
                 unit |-> parts[5], font |-> parts[4]]
    IN  IF score_type = <<Txt("inline")>> THEN
            Update(base, [header |-> "none", pageHeight |-> 100,
                          pageWidth |-> textwidth_px + 100,
                          adjustPageHeight |-> TRUE,
                          pageMarginTop |-> 0, pageMarginBottom |-> 0])
        ELSE IF score_type = <<Txt("fullscore")>> THEN
            Update(base, [pageWidth |-> textwidth_px + 100,
                          pageHeight |-> textheight_px + 100,
                          pageMarginTop |-> 0, pageMarginBottom |-> 120,
                          justifyVertically |-> TRUE,
                          adjustPageHeight |-> TRUE])
        ELSE IF score_type = <<Txt("example")>> THEN
            Update(base, [header |-> "none", breaks |-> "encoded",
                          pageWidth |-> paperwidth_px,
                          pageMarginLeft |-> oddsidemargin_px,
                          pageMarginRight |-> evensidemargin_px,
                          adjustPageHeight |-> TRUE,
                          adjustPageWidth |-> TRUE])
        ELSE base

\* process_request, lines 148-206: the options for the split request
verovio_options(parts) ==
    LET score_type == parts[2]
        paperwidth_px == parse_latex_dimension(parts[6])
        paperheight_px == parse_latex_dimension(parts[7])
        topmargin_px == parse_latex_dimension(parts[8])
        bottommargin_px == parse_latex_dimension(parts[9])
        oddsidemargin_px == parse_latex_dimension(parts[10])
        evensidemargin_px == parse_latex_dimension(parts[11])
        textwidth_px == paperwidth_px - oddsidemargin_px - evensidemargin_px
        textheight_px == paperheight_px - topmargin_px - bottommargin_px
        base == [mmOutput |-> TRUE, footer |-> "none",
                 unit |-> parts[5], font |-> parts[4]]
    IN  IF score_type = <<Txt("inline")>> THEN
            Update(base, [header |-> "none", pageHeight |-> 100,
                          pageWidth |-> textwidth_px + 100,
                          adjustPageHeight |-> TRUE,
                          pageMarginTop |-> 0, pageMarginBottom |-> 0])
        ELSE IF score_type = <<Txt("fullscore")>> THEN
            Update(base, [pageWidth |-> textwidth_px + 100,
                          pageHeight |-> textheight_px + 100,
                          pageMarginTop |-> 0, pageMarginBottom |-> 120,
                          justifyVertically |-> TRUE,
                          adjustPageHeight |-> TRUE])
        ELSE IF score_type = <<Txt("example")>> THEN
            Update(base, [header |-> "none", breaks |-> "encoded",
                          pageWidth |-> paperheight_px,
                          pageMarginLeft |-> oddsidemargin_px,
                          pageMarginRight |-> evensidemargin_px,
                          adjustPageHeight |-> TRUE,
                          adjustPageWidth |-> TRUE])
        ELSE base

\* input_file.suffix of the path field
Suffix(path) == IF Len(path) > 0 THEN path[Len(path)].s ELSE ""

\* output_dir / f"nota-score-{score_id}.pdf"
OutputPdf(score_id) == [ext |-> "pdf", id |-> score_id]

\* every snippet goes to one file, whatever the id
OutputTexMutant(score_id) == [ext |-> "tex", id |-> <<>>]

\* output_dir / f"nota-score-{score_id}.tex"
OutputTex(score_id) == [ext |-> "tex", id |-> score_id]

\* project_root / f"{jobname}-notaaux", as path components
OutputDir == <<"cwd", "job-notaaux">>

\* output_dir / name
PathIn(dir, name) == Append(dir, name)

RECURSIVE CommonLen(_, _)
\* the number of leading components two paths share
CommonLen(p, q) ==
    IF Len(p) = 0 \/ Len(q) = 0 THEN 0
    ELSE IF Head(p) # Head(q) THEN 0
    ELSE 1 + CommonLen(Tail(p), Tail(q))

\* os.path.relpath(path, start)
RelPath(path, start) ==
    LET c == CommonLen(path, start)
    IN  [k \in 1..(Len(start) - c) |-> ".."] \o SubSeq(path, c + 1, Len(path))

\* one \includegraphics line of the snippet; page = 0 is "no page option"
IncludeLine(page, relative_pdf_path) == [page |-> page, ref |-> relative_pdf_path]

\* every category gets one line per page
SnippetLinesMutant(score_type, n, relative_pdf_path) ==
    [i \in 1..n |-> IncludeLine(i, relative_pdf_path)]

\* process_request, lines 221-232: the lines written to the .tex file
SnippetLines(score_type, n, relative_pdf_path) ==
    IF score_type = <<Txt("example")>>
    THEN <<IncludeLine(0, relative_pdf_path)>>
    ELSE [i \in 1..n |-> IncludeLine(i, relative_pdf_path)]

(* ------------------------------ sorting ----------------------------- *)

RECURSIVE InsertPage(_, _)
InsertPage(p, sorted) ==
    IF Len(sorted) = 0 THEN <<p>>
    ELSE IF p.i < Head(sorted).i THEN <<p>> \o sorted
    ELSE <<Head(sorted)>> \o InsertPage(p, Tail(sorted))

RECURSIVE InsertDescending(_, _)
InsertDescending(p, sorted) ==
    IF Len(sorted) = 0 THEN <<p>>
    ELSE IF p.i > Head(sorted).i THEN <<p>> \o sorted
    ELSE <<Head(sorted)>> \o InsertDescending(p, Tail(sorted))

RECURSIVE SortPagesMutant(_)
\* the sort with reverse=True
SortPagesMutant(ps) ==
    IF Len(ps) = 0 THEN <<>>
    ELSE InsertDescending(ps[Len(ps)],
                          SortPagesMutant(SubSeq(ps, 1, Len(ps) - 1)))

RECURSIVE SortPages(_)
\* pages.sort(key=lambda x: x[0]), stable
SortPages(ps) ==
    IF Len(ps) = 0 THEN <<>>
    ELSE InsertPage(ps[Len(ps)], SortPages(SubSeq(ps, 1, Len(ps) - 1)))

(* ------------------------- the directive file ----------------------- *)

BlankLine == <<Nl>>
\* three fields only
ShortLine == Join(<< <<Txt("a")>>, <<Txt("inline")>>, MeiPath >>) \o <<Nl>>
\* twelve fields: a well-formed directive with one more field appended
LongLine ==
    Join(<< <<Txt("c")>>, <<Txt("inline")>>, MeiPath, <<Txt("Leipzig")>>,
            <<Num(90)>>, Len10(6140), Len10(7940), Len10(720), Len10(1000),
            Len10(620), Len10(700), <<Txt("extra")>> >>) \o <<Nl>>
\* the paper width has no number in front
BadDimLine ==
    Directive("a", "inline", MeiPath, <<Txt("pt")>>, Len10(7940), Len10(720),
              Len10(1000), Len10(620), Len10(700))

\* the lines a directive file of a run is made of
RunLines ==
    { BlankLine, ShortLine, LongLine, BadDimLine,
      StdDirective("a", "fullscore", MeiPath),
      StdDirective("a", "example", MsczPath),
      StdDirective("b", "inline", MsczPath) }

\* a length with the unit suffix u, or with none
LenU(n, u) == IF u = "" THEN <<Num(n)>> ELSE <<Num(n), Txt(u)>>

\* paper width, paper height, top, bottom, odd-side and even-side margin,
\* in tenths of the unit
Geometries ==
    { <<6140, 7940, 720, 1000, 620, 700>>,
      <<4300, 5978, 0, 5, 3, 28>>,
      <<3, 4300, 1234, 17, 9999, 6142>> }

Categories == {"inline", "fullscore", "example", "other"}

UnitSuffixes == {"pt", "mm", ""}

\* directives of every category over the geometries and unit suffixes
GeometryLines ==
    { Directive("g", t, MeiPath, LenU(g[1], u), LenU(g[2], u), LenU(g[3], u),
                LenU(g[4], u), LenU(g[5], u), LenU(g[6], u)) :
        t \in Categories, g \in Geometries, u \in UnitSuffixes }

RECURSIVE SeqsUpTo(_, _)
\* the sequences over S of length at most n
SeqsUpTo(S, n) ==
    IF n = 0 THEN {<<>>}
    ELSE LET shorter == SeqsUpTo(S, n - 1)
         IN  shorter \cup {Append(q, x) : q \in shorter, x \in S}

(* -------------------------------- state ----------------------------- *)

VARIABLES
    argc,          \* len(sys.argv)
    auxExists,     \* <job>.scores.aux is a file
    auxLines,      \* its lines
    outDirExists,  \* <job>-notaaux exists
    outDir,        \* its files: name -> [by, complete, body]
    tmpFiles,      \* files in the system temp directory
    mainPc,        \* where main() is
    exitStatus,    \* exit status of the process, -1 while running
    collected,     \* what main printed for each future, in order
    pc,            \* per job: Queued, the stage it is in, Done or Failed
    result,        \* per job: what the future holds
    failedAt,      \* per job: the stage the request failed in
    req,           \* per job: locals of process_request
    temp_mxl,      \* per job: render_score's temp_mxl is not None
    page_count,    \* per job: tk.getPageCount()
    svg_pages,     \* per job: pages rendered to SVG so far
    convOrder,     \* per job: page conversions finished, in finishing order
    pages,         \* per job: (i, pdf_path) pairs taken from executor.map
    wrote          \* per job: the output files the job has written

vars == <<argc, auxExists, auxLines, outDirExists, outDir, tmpFiles, mainPc,
          exitStatus, collected, pc, result, failedAt, req, temp_mxl,
          page_count, svg_pages, convOrder, pages, wrote>>

envVars == <<argc, auxExists, auxLines>>
mainVars == <<mainPc, exitStatus, collected>>
renderVars == <<temp_mxl, page_count, svg_pages, convOrder, pages>>

Jobs == 1..Len(auxLines)

NoRequest == [score_id |-> <<>>, score_type |-> <<>>, input_file |-> <<>>,
              options |-> <<>>]

\* a merged artifact left by an earlier run
StaleFile == [by |-> 0, complete |-> TRUE, body |-> <<1>>]

\* the output directory before the run: absent, or there with an old file
PriorDirs ==
    { [exists |-> FALSE, files |-> <<>>],
      [exists |-> TRUE, files |-> (OutputPdf(<<Txt("a")>>) :> StaleFile)] }

\* the state before main runs, for a directive file of at most n lines
\* out of the given ones
InitWith(lines, n) ==
    /\ argc \in 1..3
    /\ auxExists \in BOOLEAN
    /\ auxLines \in (IF auxExists THEN SeqsUpTo(lines, n) ELSE {<<>>})
    /\ \E d \in PriorDirs : outDirExists = d.exists /\ outDir = d.files
    /\ tmpFiles = {}
    /\ mainPc = "start"
    /\ exitStatus = -1
    /\ collected = <<>>
    /\ pc = <<>>
    /\ result = <<>>
    /\ failedAt = <<>>
    /\ req = <<>>
    /\ temp_mxl = <<>>
    /\ page_count = <<>>
    /\ svg_pages = <<>>
    /\ convOrder = <<>>
    /\ pages = <<>>
    /\ wrote = <<>>

Init == InitWith(RunLines, MaxLines)

(* ------------------------------- main ------------------------------- *)

Pending == [kind |-> "pending", id |-> <<>>]
ReturnedNone == [kind |-> "none", id |-> <<>>]
Raised == [kind |-> "exception", id |-> <<>>]
Returned(score_id) == [kind |-> "value", id |-> score_id]

\* main, lines 239-240: wrong argument count, sys.exit(usage string)
Usage ==
    /\ mainPc = "start"
    /\ argc # 2
    /\ mainPc' = "exited"
    /\ exitStatus' = 1
    /\ UNCHANGED <<envVars, outDirExists, outDir, tmpFiles, collected, pc,
                   result, failedAt, req, renderVars, wrote>>

\* the aux file is looked for before the directory is made
MissingAuxMutant ==
    /\ mainPc = "start"
    /\ argc = 2
    /\ ~auxExists
    /\ mainPc' = "exited"
    /\ exitStatus' = 0
    /\ UNCHANGED <<envVars, outDirExists, outDir, tmpFiles, collected, pc,
                   result, failedAt, req, renderVars, wrote>>

\* main, lines 242-252: mkdir(exist_ok=True), no aux file, sys.exit(0)
MissingAux ==
    /\ mainPc = "start"
    /\ argc = 2
    /\ outDirExists' = TRUE
    /\ ~auxExists
    /\ mainPc' = "exited"
    /\ exitStatus' = 0
    /\ UNCHANGED <<envVars, outDir, tmpFiles, collected, pc, result,
                   failedAt, req, renderVars, wrote>>

\* blank lines are dropped before the submit
DispatchMutant ==
    /\ mainPc = "start"
    /\ argc = 2
    /\ outDirExists' = TRUE
    /\ auxExists
    /\ LET kept == {j \in Jobs : Len(Strip(auxLines[j])) > 0}
       IN  /\ pc' = [j \in kept |-> "Queued"]
           /\ result' = [j \in kept |-> Pending]
           /\ failedAt' = [j \in kept |-> "none"]
           /\ req' = [j \in kept |-> NoRequest]
           /\ temp_mxl' = [j \in kept |-> FALSE]
           /\ page_count' = [j \in kept |-> 0]
           /\ svg_pages' = [j \in kept |-> <<>>]
           /\ convOrder' = [j \in kept |-> <<>>]
           /\ pages' = [j \in kept |-> <<>>]
           /\ wrote' = [j \in kept |-> {}]
    /\ mainPc' = "collect"
    /\ UNCHANGED <<envVars, outDir, tmpFiles, exitStatus, collected>>

\* main, lines 242-263: mkdir, readlines, one submit per line
Dispatch ==
    /\ mainPc = "start"
    /\ argc = 2
    /\ outDirExists' = TRUE
    /\ auxExists
    /\ pc' = [j \in Jobs |-> "Queued"]
    /\ result' = [j \in Jobs |-> Pending]
    /\ failedAt' = [j \in Jobs |-> "none"]
    /\ req' = [j \in Jobs |-> NoRequest]
    /\ temp_mxl' = [j \in Jobs |-> FALSE]
    /\ page_count' = [j \in Jobs |-> 0]
    /\ svg_pages' = [j \in Jobs |-> <<>>]
    /\ convOrder' = [j \in Jobs |-> <<>>]
    /\ pages' = [j \in Jobs |-> <<>>]
    /\ wrote' = [j \in Jobs |-> {}]
    /\ mainPc' = "collect"
    /\ UNCHANGED <<envVars, outDir, tmpFiles, exitStatus, collected>>

CollectedJobs == {collected[k].job : k \in DOMAIN collected}

\* the line main prints for a finished future, lines 269-280
Report(j, res) ==
    IF res.kind = "exception" THEN [job |-> j, msg |-> "exception", id |-> <<>>]
    ELSE IF res.kind = "value" THEN [job |-> j, msg |-> "finished", id |-> res.id]
    ELSE [job |-> j, msg |-> "skipped or failed", id |-> <<>>]

\* future.result() outside a try: a raising request ends main
CollectMutant(j) ==
    /\ mainPc = "collect"
    /\ j \in DOMAIN pc
    /\ j \notin CollectedJobs
    /\ pc[j] \in {"Done", "Failed"}
    /\ IF result[j].kind = "exception"
       THEN /\ mainPc' = "exited"
            /\ exitStatus' = 1
            /\ UNCHANGED collected
       ELSE /\ collected' = Append(collected, Report(j, result[j]))
            /\ UNCHANGED <<mainPc, exitStatus>>
    /\ UNCHANGED <<envVars, outDirExists, outDir, tmpFiles, pc, result,
                   failedAt, req, renderVars, wrote>>

\* main, lines 266-280: as_completed yields a finished future once
Collect(j) ==
    /\ mainPc = "collect"
    /\ j \in DOMAIN pc
    /\ j \notin CollectedJobs
    /\ pc[j] \in {"Done", "Failed"}
    /\ collected' = Append(collected, Report(j, result[j]))
    /\ UNCHANGED <<envVars, outDirExists, outDir, tmpFiles, mainPc,
                   exitStatus, pc, result, failedAt, req, renderVars, wrote>>

\* main exits with the number of requests that gave no score id
ExitMutant ==
    /\ mainPc = "collect"
    /\ CollectedJobs = DOMAIN pc
    /\ mainPc' = "exited"
    /\ exitStatus' = Cardinality({j \in DOMAIN pc : result[j].kind # "value"})
    /\ UNCHANGED <<envVars, outDirExists, outDir, tmpFiles, collected, pc,
                   result, failedAt, req, renderVars, wrote>>

\* main, lines 262-283: as_completed is exhausted, the pool shuts down,
\* main returns
Exit ==
    /\ mainPc = "collect"
    /\ CollectedJobs = DOMAIN pc
    /\ mainPc' = "exited"
    /\ exitStatus' = 0
    /\ UNCHANGED <<envVars, outDirExists, outDir, tmpFiles, collected, pc,
                   result, failedAt, req, renderVars, wrote>>

(* --------------------------- process_request ------------------------ *)

\* the pages of job j's TemporaryDirectory
TmpDir(j) == {f \in tmpFiles : f[1] = "page" /\ f[2] = j}

\* the job's future gets its outcome; the frames of the worker are gone
Finish(j, final, res, stage) ==
    /\ pc' = [pc EXCEPT ![j] = final]
    /\ result' = [result EXCEPT ![j] = res]
    /\ failedAt' = [failedAt EXCEPT ![j] = stage]
    /\ req' = [req EXCEPT ![j] = NoRequest]
    /\ temp_mxl' = [temp_mxl EXCEPT ![j] = FALSE]
    /\ page_count' = [page_count EXCEPT ![j] = 0]
    /\ svg_pages' = [svg_pages EXCEPT ![j] = <<>>]
    /\ convOrder' = [convOrder EXCEPT ![j] = <<>>]
    /\ pages' = [pages EXCEPT ![j] = <<>>]

\* the request stays in its worker and moves to the next stage
Goto(j, stage) ==
    /\ pc' = [pc EXCEPT ![j] = stage]
    /\ UNCHANGED <<result, failedAt>>

Running == {j \in DOMAIN pc : pc[j] \notin {"Queued", "Done", "Failed"}}

\* a pool worker is free and j is the head of the call queue
CanStart(j) ==
    /\ j \in DOMAIN pc
    /\ pc[j] = "Queued"
    /\ \A i \in DOMAIN pc : i < j => pc[i] # "Queued"
    /\ Cardinality(Running) < PoolSize

\* process_request, lines 130-132: blank line
SkipBlank(j) ==
    /\ CanStart(j)
    /\ Len(Strip(auxLines[j])) = 0
    /\ Finish(j, "Failed", ReturnedNone, "Rejected")
    /\ UNCHANGED <<envVars, mainVars, outDirExists, outDir, tmpFiles, wrote>>

\* process_request, lines 134-142: not eleven parts
SkipMalformed(j) ==
    /\ CanStart(j)
    /\ Len(Strip(auxLines[j])) > 0
    /\ Len(Split(Strip(auxLines[j]), MaxSplit)) # FieldCount
    /\ Finish(j, "Failed", ReturnedNone, "Rejected")
    /\ UNCHANGED <<envVars, mainVars, outDirExists, outDir, tmpFiles, wrote>>

\* a length that cannot be parsed counts as 0 and the request goes on
RaiseDimensionMutant(j) ==
    /\ CanStart(j)
    /\ Len(Strip(auxLines[j])) > 0
    /\ LET parts == Split(Strip(auxLines[j]), MaxSplit)
       IN  /\ Len(parts) = FieldCount
           /\ \E d \in GeometryFields(parts) : DimensionRaises(d)
           /\ req' = [req EXCEPT ![j] =
                        [score_id |-> parts[1], score_type |-> parts[2],
                         input_file |-> parts[3],
                         options |-> verovio_options(parts)]]
    /\ Goto(j, "Pending")
    /\ UNCHANGED <<envVars, mainVars, outDirExists, outDir, tmpFiles,
                   renderVars, wrote>>

\* process_request, lines 149-154: parse_latex_dimension raises
RaiseDimension(j) ==
    /\ CanStart(j)
    /\ Len(Strip(auxLines[j])) > 0
    /\ LET parts == Split(Strip(auxLines[j]), MaxSplit)
       IN  /\ Len(parts) = FieldCount
           /\ \E d \in GeometryFields(parts) : DimensionRaises(d)
    /\ Finish(j, "Failed", Raised, "Resolving")
    /\ UNCHANGED <<envVars, mainVars, outDirExists, outDir, tmpFiles, wrote>>

\* process_request, lines 130-212: the request is parsed, its options
\* are built and render_score is entered
StartRequest(j) ==
    /\ CanStart(j)
    /\ Len(Strip(auxLines[j])) > 0
    /\ LET parts == Split(Strip(auxLines[j]), MaxSplit)
       IN  /\ Len(parts) = FieldCount
           /\ \A d \in GeometryFields(parts) : ~DimensionRaises(d)
           /\ req' = [req EXCEPT ![j] =
                        [score_id |-> parts[1], score_type |-> parts[2],
                         input_file |-> parts[3],
                         options |-> verovio_options(parts)]]
    /\ Goto(j, "Pending")
    /\ UNCHANGED <<envVars, mainVars, outDirExists, outDir, tmpFiles,
                   renderVars, wrote>>

(* ----------------------------- render_score ------------------------- *)

MxlFile(j) == <<"mxl", j, 0>>
PageFile(j, i) == <<"page", j, i>>

\* render_score, lines 56-58: input_file.is_file() is false
SourceMissing(j) ==
    /\ j \in DOMAIN pc
    /\ pc[j] = "Pending"
    /\ Finish(j, "Failed", ReturnedNone, "Pending")
    /\ UNCHANGED <<envVars, mainVars, outDirExists, outDir, tmpFiles, wrote>>

\* render_score, lines 56-62: the source exists
SourceFound(j) ==
    /\ j \in DOMAIN pc
    /\ pc[j] = "Pending"
    /\ Goto(j, IF Suffix(req[j].input_file) = ".mscz"
               THEN "FormatConverting" ELSE "Loading")
    /\ UNCHANGED <<envVars, mainVars, outDirExists, outDir, tmpFiles, req,
                   renderVars, wrote>>

\* what NamedTemporaryFile and the mscore subprocess can do
ConverterOutcomes ==
    {"mktemp raises", "run raises", "nonzero status", "output missing", "ok"}

\* the temporary .mxl file is on disk after lines 64-67
MxlLeftBy(outcome) == outcome \in {"run raises", "nonzero status", "ok"}

\* render_score, lines 63-73: conversion of a .mscz source
FormatConvert(j) ==
    /\ j \in DOMAIN pc
    /\ pc[j] = "FormatConverting"
    /\ \E outcome \in ConverterOutcomes :
         /\ tmpFiles' = IF MxlLeftBy(outcome)
                        THEN tmpFiles \cup {MxlFile(j)} ELSE tmpFiles
         /\ IF outcome = "ok"
            THEN /\ Goto(j, "Loading")
                 /\ temp_mxl' = [temp_mxl EXCEPT ![j] = TRUE]
                 /\ req' = [req EXCEPT ![j].input_file =
                                          <<Txt("tmp"), Txt(".mxl")>>]
                 /\ UNCHANGED <<page_count, svg_pages, convOrder, pages>>
            ELSE Finish(j, "Failed", ReturnedNone, "FormatConverting")
    /\ UNCHANGED <<envVars, mainVars, outDirExists, outDir, wrote>>

\* render_score, lines 84-89: the finally clause of the load
UnlinkTemp(j, files) ==
    IF temp_mxl[j] THEN files \ {MxlFile(j)} ELSE files

\* a document without pages is not turned away: it goes on to the merge
LoadFailsMutant(j) ==
    /\ j \in DOMAIN pc
    /\ pc[j] = "Loading"
    /\ tmpFiles' = UnlinkTemp(j, tmpFiles)
    /\ Goto(j, "Merging")
    /\ UNCHANGED <<envVars, mainVars, outDirExists, outDir, req, renderVars,
                   wrote>>

\* render_score, lines 76-93: the engine raises, or reports no page
LoadFails(j) ==
    /\ j \in DOMAIN pc
    /\ pc[j] = "Loading"
    /\ tmpFiles' = UnlinkTemp(j, tmpFiles)
    /\ Finish(j, "Failed", ReturnedNone, "Loading")
    /\ UNCHANGED <<envVars, mainVars, outDirExists, outDir, wrote>>

\* render_score, lines 76-97: the engine loads a document of n pages
LoadFile(j) ==
    /\ j \in DOMAIN pc
    /\ pc[j] = "Loading"
    /\ \E n \in 1..MaxPages : page_count' = [page_count EXCEPT ![j] = n]
    /\ tmpFiles' = UnlinkTemp(j, tmpFiles)
    /\ Goto(j, "Rendering")
    /\ UNCHANGED <<envVars, mainVars, outDirExists, outDir, req, temp_mxl,
                   svg_pages, convOrder, pages, wrote>>

\* render_score, lines 98-104: renderToSVG raises for the next page
RenderFails(j) ==
    /\ j \in DOMAIN pc
    /\ pc[j] = "Rendering"
    /\ Finish(j, "Failed", ReturnedNone, "Rendering")
    /\ UNCHANGED <<envVars, mainVars, outDirExists, outDir, tmpFiles, wrote>>

\* render_score, lines 98-111: the next page is rendered; after the last
\* one the conversions are handed to the page pool
RenderPage(j) ==
    /\ j \in DOMAIN pc
    /\ pc[j] = "Rendering"
    /\ LET i == Len(svg_pages[j]) + 1
       IN  /\ svg_pages' = [svg_pages EXCEPT ![j] = Append(@, i)]
           /\ Goto(j, IF i = page_count[j] THEN "PageConverting"
                      ELSE "Rendering")
    /\ UNCHANGED <<envVars, mainVars, outDirExists, outDir, tmpFiles, req,
                   temp_mxl, page_count, convOrder, pages, wrote>>

ConvertedPages(j) == {convOrder[j][k].i : k \in DOMAIN convOrder[j]}

\* convert_page_to_pdf, lines 42-50, in a worker of the page pool:
\* p{i}.pdf is written, or the page's result is (i, None)
ConvertPage(j, i) ==
    /\ j \in DOMAIN pc
    /\ pc[j] = "PageConverting"
    /\ i \in 1..page_count[j]
    /\ i \notin ConvertedPages(j)
    /\ \E ok \in BOOLEAN :
         /\ convOrder' = [convOrder EXCEPT ![j] =
                            Append(@, [i |-> i, path |-> IF ok THEN i ELSE 0])]
         /\ tmpFiles' = IF ok THEN tmpFiles \cup {PageFile(j, i)} ELSE tmpFiles
    /\ UNCHANGED <<envVars, mainVars, outDirExists, outDir, pc, result,
                   failedAt, req, temp_mxl, page_count, svg_pages, pages,
                   wrote>>

\* the result executor.map holds for page i
MapResult(j, i) ==
    CHOOSE r \in {convOrder[j][k] : k \in DOMAIN convOrder[j]} : r.i = i

\* the pages converted so far are merged before the request gives up
PageConvertFailsMutant(j) ==
    /\ j \in DOMAIN pc
    /\ pc[j] = "PageConverting"
    /\ LET i == Len(pages[j]) + 1
       IN  /\ i \in ConvertedPages(j)
           /\ MapResult(j, i).path = 0
    /\ tmpFiles' = tmpFiles \ TmpDir(j)
    /\ outDir' = (OutputPdf(req[j].score_id) :>
                    [by |-> j, complete |-> TRUE,
                     body |-> [k \in 1..Len(pages[j]) |-> pages[j][k].path]])
                 @@ outDir
    /\ Finish(j, "Failed", ReturnedNone, "PageConverting")
    /\ UNCHANGED <<envVars, mainVars, outDirExists, wrote>>

\* render_score, lines 112-114: the next result of executor.map is None
PageConvertFails(j) ==
    /\ j \in DOMAIN pc
    /\ pc[j] = "PageConverting"
    /\ LET i == Len(pages[j]) + 1
       IN  /\ i \in ConvertedPages(j)
           /\ MapResult(j, i).path = 0
    /\ tmpFiles' = tmpFiles \ TmpDir(j)
    /\ Finish(j, "Failed", ReturnedNone, "PageConverting")
    /\ UNCHANGED <<envVars, mainVars, outDirExists, outDir, wrote>>

\* render_score, lines 112-115: executor.map yields the results in the
\* order of its arguments, each as soon as it is there
TakePage(j) ==
    /\ j \in DOMAIN pc
    /\ pc[j] = "PageConverting"
    /\ LET i == Len(pages[j]) + 1
       IN  /\ i \in ConvertedPages(j)
           /\ MapResult(j, i).path # 0
           /\ pages' = [pages EXCEPT ![j] = Append(@, MapResult(j, i))]
           /\ Goto(j, IF i = page_count[j] THEN "Merging"
                      ELSE "PageConverting")
    /\ UNCHANGED <<envVars, mainVars, outDirExists, outDir, tmpFiles, req,
                   temp_mxl, page_count, svg_pages, convOrder, wrote>>

\* what PdfMerger can do in lines 121-125
MergeOutcomes == {"append raises", "open raises", "write raises", "ok"}

\* the pages PdfMerger.append has read, in the order it read them
MergedBody(ps) == [k \in 1..Len(ps) |-> ps[k].path]

\* a file put into the output directory
WriteFile(dir, name, j, complete, body) ==
    (name :> [by |-> j, complete |-> complete, body |-> body]) @@ dir

\* render_score, lines 117-125: sort, merge, write to output_pdf; an
\* exception of the merger is not caught
Merge(j) ==
    /\ j \in DOMAIN pc
    /\ pc[j] = "Merging"
    /\ LET output_pdf == OutputPdf(req[j].score_id)
           body == MergedBody(SortPages(pages[j]))
       IN  \E outcome \in MergeOutcomes :
             \/ /\ outcome = "ok"
                /\ outDir' = WriteFile(outDir, output_pdf, j, TRUE, body)
                /\ wrote' = [wrote EXCEPT ![j] = @ \cup {output_pdf}]
                /\ Goto(j, "SnippetWriting")
                /\ UNCHANGED <<req, renderVars>>
             \/ /\ outcome \in {"append raises", "open raises"}
                /\ Finish(j, "Failed", Raised, "Merging")
                /\ UNCHANGED <<outDir, wrote>>
             \/ /\ outcome = "write raises"
                /\ \E m \in 0..(Len(body) - 1) :
                     outDir' = WriteFile(outDir, output_pdf, j, FALSE,
                                         SubSeq(body, 1, m))
                /\ wrote' = [wrote EXCEPT ![j] = @ \cup {output_pdf}]
                /\ Finish(j, "Failed", Raised, "Merging")
    /\ tmpFiles' = tmpFiles \ TmpDir(j)
    /\ UNCHANGED <<envVars, mainVars, outDirExists>>

\* process_request, lines 214-221: open(output_tex, 'w') raises
SnippetFails(j) ==
    /\ j \in DOMAIN pc
    /\ pc[j] = "SnippetWriting"
    /\ page_count[j] > 0
    /\ Finish(j, "Failed", Raised, "SnippetWriting")
    /\ UNCHANGED <<envVars, mainVars, outDirExists, outDir, tmpFiles, wrote>>

\* process_request, lines 214-234: the snippet is written and the
\* score id returned
WriteSnippet(j) ==
    /\ j \in DOMAIN pc
    /\ pc[j] = "SnippetWriting"
    /\ page_count[j] > 0
    /\ LET output_tex == OutputTex(req[j].score_id)
           relative_pdf_path ==
               RelPath(PathIn(OutputDir, OutputPdf(req[j].score_id)),
                       OutputDir)
       IN  /\ outDir' = WriteFile(outDir, output_tex, j, TRUE,
                                  SnippetLines(req[j].score_type,
                                               page_count[j],
                                               relative_pdf_path))
           /\ wrote' = [wrote EXCEPT ![j] = @ \cup {output_tex}]
    /\ Finish(j, "Done", Returned(req[j].score_id), "none")
    /\ UNCHANGED <<envVars, mainVars, outDirExists, tmpFiles>>

(* --------------------------- specification -------------------------- *)

\* one step of the worker that runs job j
Worker(j) ==
    \/ SkipBlank(j)
    \/ SkipMalformed(j)
    \/ RaiseDimension(j)
    \/ StartRequest(j)
    \/ SourceMissing(j)
    \/ SourceFound(j)
    \/ FormatConvert(j)
    \/ LoadFails(j)
    \/ LoadFile(j)
    \/ RenderFails(j)
    \/ RenderPage(j)
    \/ PageConvertFails(j)
    \/ TakePage(j)
    \/ Merge(j)
    \/ SnippetFails(j)
    \/ WriteSnippet(j)

Next ==
    \/ Usage
    \/ MissingAux
    \/ Dispatch
    \/ \E j \in 1..MaxLines : Collect(j)
    \/ Exit
    \/ \E j \in 1..MaxLines : Worker(j)
    \/ \E j \in 1..MaxLines, i \in 1..MaxPages : ConvertPage(j, i)

Spec == Init /\ [][Next]_vars

\* the runs over a directive file of at most one line
OneInit == InitWith(RunLines \cup GeometryLines, 1)

OneSpec == OneInit /\ [][Next]_vars

\* the scheduler keeps running whatever can run, and every external call
\* returns
FairSpec == Spec /\ WF_vars(Next)

(* ------------------------------ claims ------------------------------ *)

Terminal == {"Done", "Failed"}

\* main collected exactly one outcome for every line it submitted
CollectedOncePerJob ==
    /\ DOMAIN pc = Jobs
    /\ \A j \in Jobs : pc[j] \in Terminal
    /\ Len(collected) = Len(auxLines)
    /\ \A j \in Jobs :
         Cardinality({k \in DOMAIN collected : collected[k].job = j}) = 1

\* C1: whatever fails in a request (a failure result at any stage or an
\* exception in the worker), every submitted request still reaches Done
\* or Failed, main collects exactly one outcome per submitted job, and
\* the run terminates.
C1_FailureIsolation ==
    <>[](/\ mainPc = "exited"
         /\ (argc = 2 /\ auxExists) => CollectedOncePerJob)

\* a run that ended with one request raising, and its sibling done
C1_Witness ==
    /\ mainPc = "exited"
    /\ CollectedOncePerJob
    /\ \E i, j \in Jobs :
         /\ result[i].kind = "exception"
         /\ pc[j] = "Done"

\* C2: with one job-name argument and a readable directive file the
\* exit status is 0, whatever the requests' outcomes were.
C2_ExitStatusZero ==
    (mainPc = "exited" /\ argc = 2 /\ auxExists) => exitStatus = 0

\* a run that ended with every request failed, one of them by raising
C2_Witness ==
    /\ mainPc = "exited"
    /\ argc = 2
    /\ Len(auxLines) = 2
    /\ \A j \in Jobs : pc[j] = "Failed"
    /\ \E i, j \in Jobs : result[i].kind = "exception" /\ result[j].kind = "none"

\* the pipe-delimited fields of a line
PipeFields(line) == Split(Strip(line), Len(line))

\* C3: a line whose number of pipe-delimited fields is not 11 is
\* skipped: no render is started for it and it writes no file.
C3_NotElevenFieldsRejected ==
    \A j \in DOMAIN pc :
        Len(PipeFields(auxLines[j])) # FieldCount =>
            /\ pc[j] \in {"Queued", "Failed"}
            /\ failedAt[j] \in {"none", "Rejected"}
            /\ wrote[j] = {}

\* render_score has returned in job j
RenderReturned(j) == pc[j] \in {"SnippetWriting", "Done", "Failed"}

\* C4: once render_score has returned, the temporary interchange file of
\* the request is gone, on every exit path.
C4_TempFileRemoved ==
    \A j \in DOMAIN pc : RenderReturned(j) => MxlFile(j) \notin tmpFiles

RenderStages ==
    {"Pending", "FormatConverting", "Loading", "Rendering", "PageConverting",
     "Merging"}

\* C5: a request that fails inside render_score gets a failure result;
\* no exception escapes render_score.
C5_NoExceptionEscapesRender ==
    \A j \in DOMAIN pc :
        (pc[j] = "Failed" /\ failedAt[j] \in RenderStages) =>
            result[j].kind = "none"

\* C6: a file stands at nota-score-<id>.pdf only after a completed merge;
\* no partially written artifact is ever there.
C6_MergeAtomic ==
    \A name \in DOMAIN outDir :
        (name.ext = "pdf" /\ outDir[name].by # 0) => outDir[name].complete

PreMergeStages ==
    {"Pending", "FormatConverting", "Loading", "Rendering", "PageConverting"}

\* the files of the output directory that job j wrote last
FilesBy(j) == {name \in DOMAIN outDir : outDir[name].by = j}

\* C7: a request that failed at a stage before merging has written
\* nothing into the output directory, neither artifact nor snippet.
C7_FailedBeforeMergeWritesNothing ==
    \A j \in DOMAIN pc :
        (pc[j] = "Failed" /\ failedAt[j] \in PreMergeStages) =>
            /\ wrote[j] = {}
            /\ FilesBy(j) = {}

\* a request failed in page conversion (all its pages were rendered by
\* then); the directory holds the old file of an earlier run and no more
C7_Witness ==
    \E j \in DOMAIN pc :
        /\ pc[j] = "Failed"
        /\ failedAt[j] = "PageConverting"
        /\ wrote[j] = {}
        /\ DOMAIN outDir = {OutputPdf(<<Txt("a")>>)}
        /\ outDir[OutputPdf(<<Txt("a")>>)] = StaleFile

\* C8: the merged artifact of a request with N pages holds pages 1..N in
\* ascending order, each once, whatever order the conversions ended in.
C8_MergedInPageOrder ==
    \A name \in DOMAIN outDir :
        (name.ext = "pdf" /\ outDir[name].by # 0 /\ outDir[name].complete) =>
            /\ \A k \in DOMAIN outDir[name].body : outDir[name].body[k] = k
            /\ LET j == outDir[name].by
               IN  pc[j] = "SnippetWriting" =>
                       Len(outDir[name].body) = page_count[j]

\* page 2 was converted before page 1, and the artifact is merged
C8_Witness ==
    \E j \in DOMAIN pc :
        /\ pc[j] = "SnippetWriting"
        /\ page_count[j] = 2
        /\ Len(convOrder[j]) = 2
        /\ convOrder[j][1].i = 2
        /\ OutputPdf(req[j].score_id) \in FilesBy(j)
        /\ outDir[OutputPdf(req[j].score_id)].body = <<1, 2>>

\* the stage of the request that a job's position stands for
Stage(p) == IF p = "Queued" THEN "Pending" ELSE p

StageOrder ==
    <<"Pending", "FormatConverting", "Loading", "Rendering",
      "PageConverting", "Merging", "SnippetWriting", "Done">>

Rank(st) == CHOOSE k \in DOMAIN StageOrder : StageOrder[k] = st

\* a step from stage a to stage b is one the state machine has
StageStep(a, b) ==
    \/ a = b
    \/ a \notin Terminal /\ b = "Failed"
    \/ a \notin Terminal /\ b # "Failed" /\ Rank(b) = Rank(a) + 1
    \/ a = "Pending" /\ b = "Loading"

\* C9: a request moves through Pending, optional FormatConverting,
\* Loading, Rendering, PageConverting, Merging, SnippetWriting, Done
\* without skipping or going back, may go to Failed from any stage, and
\* once Done or Failed it stays there and writes no file.
C9_StageOrder ==
    [][\A j \in (DOMAIN pc) \cap (DOMAIN pc') :
          /\ StageStep(Stage(pc[j]), Stage(pc'[j]))
          /\ pc[j] \in Terminal =>
               /\ pc'[j] = pc[j]
               /\ wrote'[j] = wrote[j]
               /\ \A name \in DOMAIN outDir' :
                    outDir'[name].by = j =>
                        (name \in DOMAIN outDir /\ outDir'[name] = outDir[name])
      ]_vars

\* a request of a .mscz source went through every stage to Done and
\* was collected
C9_Witness ==
    \E j \in DOMAIN pc :
        /\ pc[j] = "Done"
        /\ \E name \in FilesBy(j) :
             name.ext = "tex" /\ name.id = <<Txt("b")>>
        /\ j \in CollectedJobs

\* C10: without a directive file the run exits with status 0, submits
\* no job, and only makes sure the output directory exists; what the
\* directory held stays as it was.
C10_MissingDirectiveFile ==
    [][(mainPc = "start" /\ argc = 2 /\ ~auxExists) =>
          /\ mainPc' = "exited"
          /\ exitStatus' = 0
          /\ outDirExists'
          /\ outDir' = outDir
          /\ tmpFiles' = tmpFiles
          /\ pc' = <<>>
      ]_vars

\* the run has exited without a directive file; the old output is there
C10_Witness ==
    /\ mainPc = "exited"
    /\ argc = 2
    /\ ~auxExists
    /\ exitStatus = 0
    /\ outDirExists
    /\ DOMAIN outDir # {}

\* the line is a request: not blank, and exactly eleven fields
WellFormed(line) ==
    Len(Strip(line)) > 0 /\ Len(PipeFields(line)) = FieldCount

\* main has submitted the jobs of the directive file
Dispatched == mainPc \in {"collect", "exited"} /\ argc = 2 /\ auxExists

\* C11 as stated: blank and malformed lines are dropped before dispatch,
\* so the jobs submitted are as many as the well-formed requests, and no
\* blank or malformed line yields a collected result.
C11_OnlyWellFormedDispatched ==
    Dispatched =>
        /\ Cardinality(DOMAIN pc) =
               Cardinality({j \in Jobs : WellFormed(auxLines[j])})
        /\ \A k \in DOMAIN collected : WellFormed(auxLines[collected[k].job])

\* the line is blank or has fewer than eleven fields
BlankOrShort(line) ==
    Len(Strip(line)) = 0 \/ Len(PipeFields(line)) < FieldCount

\* C11, amended: one job is submitted per line of the directive file,
\* blank and malformed lines included; a blank line or a line of fewer
\* than eleven fields is turned away in its worker: it starts no render,
\* writes no file, and its one collected result is reported as skipped
\* or failed.
C11_RejectedInWorker ==
    Dispatched =>
        /\ DOMAIN pc = Jobs
        /\ \A j \in Jobs :
             BlankOrShort(auxLines[j]) =>
                 /\ pc[j] \in {"Queued", "Failed"}
                 /\ failedAt[j] \in {"none", "Rejected"}
                 /\ wrote[j] = {}
                 /\ \A k \in DOMAIN collected :
                      collected[k].job = j =>
                          collected[k].msg = "skipped or failed"
                 /\ mainPc = "exited" =>
                      Cardinality({k \in DOMAIN collected :
                                      collected[k].job = j}) = 1

\* the run ended; a blank line and a short line were each collected as
\* skipped
C11_Witness ==
    /\ mainPc = "exited"
    /\ Len(auxLines) = 2
    /\ Len(Strip(auxLines[1])) = 0
    /\ Len(Strip(auxLines[2])) > 0
    /\ BlankOrShort(auxLines[2])
    /\ \A j \in Jobs :
         \E k \in DOMAIN collected :
             collected[k].job = j /\ collected[k].msg = "skipped or failed"

\* the category field of a directive line
CategoryOf(line) == Split(Strip(line), MaxSplit)[2]

\* the id field of a directive line
IdOf(line) == Split(Strip(line), MaxSplit)[1]

\* the snippet holds one line without page option
OneLineNoPage(body) == Len(body) = 1 /\ body[1].page = 0

\* the snippet holds n lines that select pages 1..n in this order
OneLinePerPage(body, n) ==
    Len(body) = n /\ \A k \in 1..n : body[k].page = k

\* C12: the snippet of a successful request with N pages holds one
\* inclusion line without page selector for category example, and N
\* lines selecting pages 1..N in order for every other category; each
\* line names the artifact by its path relative to the snippet's
\* directory, which is the bare file name.
C12_SnippetContent ==
    [][\A j \in (DOMAIN pc) \cap (DOMAIN pc') :
          (pc[j] = "SnippetWriting" /\ pc'[j] = "Done") =>
              LET tex == OutputTex(IdOf(auxLines[j]))
                  pdf == OutputPdf(IdOf(auxLines[j]))
              IN  /\ tex \in DOMAIN outDir'
                  /\ outDir'[tex].by = j
                  /\ IF CategoryOf(auxLines[j]) = <<Txt("example")>>
                     THEN OneLineNoPage(outDir'[tex].body)
                     ELSE OneLinePerPage(outDir'[tex].body, page_count[j])
                  /\ \A k \in DOMAIN outDir'[tex].body :
                       outDir'[tex].body[k].ref = <<pdf>>
      ]_vars

\* an example request of two pages is done: its artifact has two pages,
\* its snippet one line
C12_Witness ==
    \E j \in DOMAIN pc :
        /\ pc[j] = "Done"
        /\ CategoryOf(auxLines[j]) = <<Txt("example")>>
        /\ OutputPdf(IdOf(auxLines[j])) \in FilesBy(j)
        /\ OutputTex(IdOf(auxLines[j])) \in FilesBy(j)
        /\ Len(outDir[OutputPdf(IdOf(auxLines[j]))].body) = 2
        /\ Len(outDir[OutputTex(IdOf(auxLines[j]))].body) = 1

\* the job is inside process_request with its options built
HasOptions(j) == j \in DOMAIN req /\ req[j] # NoRequest

\* the parts of a directive line
PartsOf(line) == Split(Strip(line), MaxSplit)

\* the resolved value of part k of a line
Px(line, k) == parse_latex_dimension(PartsOf(line)[k])

\* C13: inline gets pageHeight 100, pageWidth = textWidth + 100 and zero
\* top and bottom margins; fullscore gets pageWidth = textWidth + 100,
\* pageHeight = textHeight + 100, top margin 0, bottom margin 120;
\* example gets pageWidth = the resolved paper height and left/right
\* margins = odd/even side margins, and no top or bottom margin.
C13_OptionsByCategory ==
    \A j \in DOMAIN pc :
        HasOptions(j) =>
            LET l == auxLines[j]
                o == req[j].options
                textWidth == Px(l, 6) - Px(l, 10) - Px(l, 11)
                textHeight == Px(l, 7) - Px(l, 8) - Px(l, 9)
            IN  /\ CategoryOf(l) = <<Txt("inline")>> =>
                     /\ o.pageHeight = 100
                     /\ o.pageWidth = textWidth + 100
                     /\ o.pageMarginTop = 0
                     /\ o.pageMarginBottom = 0
                /\ CategoryOf(l) = <<Txt("fullscore")>> =>
                     /\ o.pageWidth = textWidth + 100
                     /\ o.pageHeight = textHeight + 100
                     /\ o.pageMarginTop = 0
                     /\ o.pageMarginBottom = 120
                /\ CategoryOf(l) = <<Txt("example")>> =>
                     /\ o.pageWidth = Px(l, 7)
                     /\ o.pageMarginLeft = Px(l, 10)
                     /\ o.pageMarginRight = Px(l, 11)
                     /\ "pageMarginTop" \notin DOMAIN o
                     /\ "pageMarginBottom" \notin DOMAIN o

\* an example request whose paper is 430.0 wide and 597.8 high has the
\* height's value as page width
C13_Witness ==
    \E j \in DOMAIN pc :
        /\ HasOptions(j)
        /\ CategoryOf(auxLines[j]) = <<Txt("example")>>
        /\ PartsOf(auxLines[j])[6][1].n = 4300
        /\ PartsOf(auxLines[j])[7][1].n = 5978
        /\ req[j].options.pageWidth = 2108
        /\ req[j].options.pageMarginLeft = 1
        /\ req[j].options.pageMarginRight = 9

\* v is n/10 * 0.3527 * 10 cut off after the decimal point
Truncated(v, n) == v * 10000 <= n * 3527 /\ n * 3527 < (v + 1) * 10000

\* the numeral a length string starts with, in tenths
NumeralOf(dim) == dim[1].n

\* C14: for a length string made of a decimal number N and a unit
\* suffix the resolver returns N * 0.3527 * 10 truncated, not rounded,
\* whatever the suffix is.  (The example category passes three resolved
\* values on unchanged.)
C14_ResolveTruncates ==
    \A j \in DOMAIN pc :
        (HasOptions(j) /\ CategoryOf(auxLines[j]) = <<Txt("example")>>) =>
            LET parts == PartsOf(auxLines[j])
                o == req[j].options
            IN  /\ Truncated(o.pageWidth, NumeralOf(parts[7]))
                /\ Truncated(o.pageMarginLeft, NumeralOf(parts[10]))
                /\ Truncated(o.pageMarginRight, NumeralOf(parts[11]))

\* 430.0mm resolves to 1516 (the product is 1516.61), 614.2mm to 2166
C14_Witness ==
    \E j \in DOMAIN pc :
        /\ HasOptions(j)
        /\ CategoryOf(auxLines[j]) = <<Txt("example")>>
        /\ PartsOf(auxLines[j])[7] = LenU(4300, "mm")
        /\ PartsOf(auxLines[j])[11] = LenU(6142, "mm")
        /\ req[j].options.pageWidth = 1516
        /\ req[j].options.pageMarginRight = 2166

\* process_request takes the line as a request: not blank, eleven parts
IsRequest(line) == Len(Strip(line)) > 0 /\ Len(PartsOf(line)) = FieldCount

\* a request with a geometry string that does not start with a numeral
BadGeometry(line) ==
    /\ IsRequest(line)
    /\ \E d \in GeometryFields(PartsOf(line)) : ~HasNumericPrefix(d)

RequestJobs == {j \in DOMAIN pc : IsRequest(auxLines[j])}

\* no two requests of the directive file have the same id
DistinctIds ==
    \A i, j \in RequestJobs : i # j => IdOf(auxLines[i]) # IdOf(auxLines[j])

\* the two files named by the id of a line
OwnFiles(line) == {OutputPdf(IdOf(line)), OutputTex(IdOf(line))}

\* with distinct ids the sets of files the requests wrote are disjoint
\* and each lies within the two files of the request's id
FilesDisjoint ==
    DistinctIds =>
        /\ \A j \in DOMAIN pc :
             /\ wrote[j] \subseteq
                  (IF IsRequest(auxLines[j]) THEN OwnFiles(auxLines[j]) ELSE {})
             /\ FilesBy(j) \subseteq wrote[j]
        /\ \A i, j \in DOMAIN pc : i # j => wrote[i] \cap wrote[j] = {}

\* a step changes in the output directory only files that the stepping
\* request records as written
WritesRecorded ==
    [][\A name \in DOMAIN outDir' :
          (name \notin DOMAIN outDir \/ outDir'[name] # outDir[name]) =>
              /\ outDir'[name].by \in DOMAIN wrote'
              /\ name \in wrote'[outDir'[name].by]]_vars

\* C17: if the ids of the requests of a directive file are distinct,
\* each file of the output directory is written by at most one request
\* and a request writes only nota-score-<id>.pdf and nota-score-<id>.tex
\* of its own id, in every interleaving.
C17_DistinctIdsDisjointFiles == []FilesDisjoint /\ WritesRecorded

\* two requests with ids a and b are done, each with its two files
C17_Witness ==
    /\ Len(auxLines) = 2
    /\ DOMAIN pc = 1..2
    /\ DistinctIds
    /\ pc[1] = "Done" /\ pc[2] = "Done"
    /\ IdOf(auxLines[1]) # IdOf(auxLines[2])
    /\ wrote[1] = OwnFiles(auxLines[1])
    /\ wrote[2] = OwnFiles(auxLines[2])
    /\ FilesBy(1) = wrote[1] /\ FilesBy(2) = wrote[2]

\* the keys that override page size and margins
GeometryKeys ==
    {"pageWidth", "pageHeight", "pageMarginTop", "pageMarginBottom",
     "pageMarginLeft", "pageMarginRight"}

\* the categories process_request has a branch for
KnownCategories == {<<Txt("inline")>>, <<Txt("fullscore")>>, <<Txt("example")>>}

\* C19: for a request whose category is none of inline, fullscore,
\* example, the options have no page width, page height or margin key,
\* have mmOutput on, the request's font and unit, and set both header
\* and footer to "none".
C19_UnknownCategoryOptions ==
    \A j \in DOMAIN pc :
        (HasOptions(j) /\ CategoryOf(auxLines[j]) \notin KnownCategories) =>
            LET o == req[j].options
                parts == PartsOf(auxLines[j])
            IN  /\ DOMAIN o \cap GeometryKeys = {}
                /\ o.mmOutput = TRUE
                /\ o.font = parts[4]
                /\ o.unit = parts[5]
                /\ o.footer = "none"
                /\ "header" \in DOMAIN o
                /\ o.header = "none"

\* the page conversions of request j that executor.map has submitted and
\* that have not ended
PageTasksLeft(j) == page_count[j] - Len(convOrder[j])

\* render_score, line 110: every request opens a pool of its own, of the
\* default size, and its workers take the submitted conversions
ActivePageWorkers(j) ==
    IF pc[j] = "PageConverting"
    THEN (IF PageTasksLeft(j) < PoolSize THEN PageTasksLeft(j) ELSE PoolSize)
    ELSE 0

RECURSIVE TotalActivePageWorkers(_)
\* the page-conversion workers active for the jobs 1..n
TotalActivePageWorkers(n) ==
    IF n = 0 THEN 0
    ELSE ActivePageWorkers(n) + TotalActivePageWorkers(n - 1)

\* C16: with a request pool of size PoolSize at most PoolSize requests
\* are in progress, and the page-conversion workers active over all
\* requests in progress stay within PoolSize, the size of one pool.
C16_ConcurrencyCapped ==
    /\ Cardinality(Running) <= PoolSize
    /\ TotalActivePageWorkers(Len(pc)) <= PoolSize

\* the request ended with its artifact and its snippet written
Succeeded(j) ==
    /\ pc[j] = "Done"
    /\ IsRequest(auxLines[j])
    /\ wrote[j] = OwnFiles(auxLines[j])
    /\ result[j] = Returned(IdOf(auxLines[j]))

\* the request ended without leaving a file
FailedClean(j) == pc[j] = "Failed" /\ wrote[j] = {} /\ FilesBy(j) = {}

\* C18: a request that has ended either succeeded, with artifact and
\* snippet written by it, or failed and left no file; main logs a
\* request as finished only if it succeeded.
C18_SuccessOrNoArtifact ==
    /\ \A j \in DOMAIN pc :
         pc[j] \in Terminal => (Succeeded(j) \/ FailedClean(j))
    /\ \A k \in DOMAIN collected :
         collected[k].msg = "finished" => Succeeded(collected[k].job)

\* the snippet and the artifact belong together: same writer, and a
\* snippet with page selectors selects the pages the artifact has
Consistent(pdf, tex) ==
    /\ pdf.by = tex.by
    /\ pdf.complete
    /\ OneLineNoPage(tex.body) \/ OneLinePerPage(tex.body, Len(pdf.body))

\* C20: when two requests of a run share an id and both succeed, the
\* artifact and the snippet left for that id at the end of the run were
\* written by the same request and the snippet selects the pages of the
\* artifact.
C20_SharedIdConsistent ==
    \A i, j \in DOMAIN pc :
        ( /\ mainPc = "exited"
          /\ i # j
          /\ IsRequest(auxLines[i]) /\ IsRequest(auxLines[j])
          /\ IdOf(auxLines[i]) = IdOf(auxLines[j])
          /\ auxLines[i] # auxLines[j]
          /\ pc[i] = "Done" /\ pc[j] = "Done" ) =>
            LET pdf == OutputPdf(IdOf(auxLines[i]))
                tex == OutputTex(IdOf(auxLines[i]))
            IN  /\ pdf \in DOMAIN outDir
                /\ tex \in DOMAIN outDir
                /\ Consistent(outDir[pdf], outDir[tex])

=============================================================================
